---- MODULE Spec2Model ----
(***************************************************************************)
(* Model of the gimli experiment runner (runner package): RunExperiment,   *)
(* RunProbes, executeProbe, executeScenario, executeAttack, together with  *)
(* FlySaboteur.ListTargets / RestartMachine and the cancellation context   *)
(* created in main.                                                        *)
(*                                                                         *)
(* Time is counted in half seconds from the moment executeScenario creates *)
(* its ticker and its deadline context.  Time passes only while the runner *)
(* is blocked: in the select, in time.Sleep, or in an HTTP call whose      *)
(* context is still live.  An HTTP call whose context is done returns an   *)
(* error without further delay.                                            *)
(***************************************************************************)
EXTENDS Integers, Sequences, FiniteSets, TLC

\* ------------------------------------------------------------------ bounds

\* Largest number of probes RunProbes is given when it is checked on its own.
NumProbes == 3

\* Largest number of probes of an experiment in a whole run.
NumRunProbes == 2

\* Largest number of machines the provider reports.
NumMachines == 2

\* Largest scenario duration / interval, in half seconds.
MaxDuration == 6

MaxInterval == 2

\* Largest number of probes in the runs checked for termination.
NumLiveProbes == 1

\* Largest number of probes of a configuration file given to Validate.
NumLoadedProbes == 2

\* ------------------------------------------------- program constants

\* time.Sleep(2 * time.Second) in executeAttack, in half seconds.
SettleDelay == 4

\* http.StatusOK, http.StatusAccepted
StatusOK == 200

StatusAccepted == 202

\* p.HTTP.ExpectedStatus = 200 in Probe.Validate.
DefaultExpectedStatus == 200

\* p.Timeout = 30 * time.Second in Probe.Validate, in half seconds.
DefaultTimeout == 60

\* ------------------------------------------------------------ inputs

\* The HTTP outcomes the environment can produce: status 0 stands for a
\* transport error (no response), the others are response status codes.
HTTPStatuses == {0, 200, 202, 500}

MachineStates == {"started", "running", "stopped"}

ScenarioTypes == {"restart_random", "pause_random"}

\* A validated http probe (domain.Probe after Probe.Validate).
Probe(i) ==
    [Name |-> i, Type |-> "http", HasHTTP |-> TRUE, ExpectedStatus |-> 200]

\* The provider's machine listings: a sequence of machine states, the
\* machine's ID being its position.
MachineLists == UNION {[1..n -> MachineStates] : n \in 0..NumMachines}

Phases == {"pre", "attack", "post"}

VARIABLES
    pc,            \* where RunExperiment is
    probes,        \* experiment.SteadyState.Probes
    scenarioType,  \* experiment.Scenario.Type
    interval,      \* experiment.Scenario.Interval
    duration,      \* experiment.Scenario.Duration
    cancelled,     \* ctx of main is cancelled
    phase,         \* which call of RunProbes is running
    running,       \* probe goroutines that have not returned (wg counter)
    errors,        \* the buffered channel `errors` of RunProbes
    probeErrors,   \* the slice probeErrors of the last RunProbes call
    targets,       \* the snapshot returned by ListTargets
    elapsed,       \* half seconds since the ticker and deadline were created
    nextTick,      \* when the ticker fires next
    tickPending,   \* ticker.C holds a tick (capacity 1)
    sleepUntil,    \* end of the time.Sleep of executeAttack
    attackCount,   \* attackCount of executeScenario
    attackErr,     \* the last return value of executeAttack
    result,        \* the return value of RunExperiment
    loopResult,    \* how executeScenario ended
    \* history of the run
    failed,        \* probes whose executeProbe returned an error in this call
    executed,      \* probes whose executeProbe returned in this call
    valCount,      \* RunProbes calls started, per phase
    valResult,     \* result of the last RunProbes call, per phase
    listCalls,     \* calls of ListTargets
    listOutcome,   \* what the provider answered to ListTargets
    restartCalls,  \* calls of RestartMachine
    restartFails,  \* calls of RestartMachine that returned an error
    attacked,      \* machine IDs passed to RestartMachine
    ticks,         \* ticks received by the select
    envFail,       \* the environment (not a done context) made a call fail
    cancelledIdle, \* the cancellation arrived while the select was blocked
    cancelledAt,   \* where RunExperiment was when cancel() was called
    \* loadExperiment
    loaded,        \* the experiment as yaml.Unmarshal produced it
    validateErr,   \* the return value of Experiment.Validate
    probeOutcome   \* an executeProbe call on a probe of the validated experiment

vars == <<pc, probes, scenarioType, interval, duration, cancelled, phase,
          running, errors, probeErrors, targets, elapsed, nextTick,
          tickPending, sleepUntil, attackCount, attackErr, result,
          loopResult, failed, executed, valCount, valResult, listCalls,
          listOutcome, restartCalls, restartFails, attacked, ticks, envFail,
          cancelledIdle, cancelledAt, loaded, validateErr, probeOutcome>>

\* What loadExperiment produced; RunExperiment does not write it.
loadVars == <<loaded, validateErr, probeOutcome>>

experimentVars == <<probes, scenarioType, interval, duration, loadVars>>

probeVars == <<phase, running, errors, probeErrors, failed, executed,
               valCount, valResult>>

timeVars == <<elapsed, nextTick, tickPending, sleepUntil>>

\* ------------------------------------------------------- pure functions

\* executeProbe: "nil" or the error it returns.
executeProbe(probe, ctxDone, status) ==
    IF probe.Type # "http" THEN "unsupported probe type"
    ELSE IF ~probe.HasHTTP THEN "HTTP probe configuration is missing"
    ELSE IF ctxDone \/ status = 0 THEN "executing request"
    ELSE IF status # probe.ExpectedStatus THEN "unexpected status code"
    ELSE "nil"

\* Mutant: the error channel is unbuffered.
chanCapUnbuffered(ps) == 0

\* make(chan error, len(probes))
chanCap(ps) == Len(ps)

\* Mutant: only the first error received is kept.
CollectFirstError(ch) == IF Len(ch) > 0 THEN <<Head(ch)>> ELSE <<>>

\* for err := range errors { probeErrors = append(probeErrors, err) }
CollectErrors(ch) == ch

\* Mutant: a single failure is tolerated.
RunProbesFailsOffByOne(errs) == Len(errs) > 1

\* if len(probeErrors) > 0 { return error }; return nil
RunProbesFails(errs) == Len(errs) > 0

\* The probe names a composite error carries.
NamesIn(errs) == {errs[k].probe : k \in 1..Len(errs)}

\* FlySaboteur.ListTargets: the eligible machines of the listing, in order.
RECURSIVE Eligible(_, _)
Eligible(machines, k) ==
    IF k > Len(machines) THEN <<>>
    ELSE IF machines[k] # "started" /\ machines[k] # "running"
         THEN Eligible(machines, k + 1)
         ELSE <<k>> \o Eligible(machines, k + 1)

\* Mutant: an empty result is returned without an error.
ListTargetsAllowEmpty(ctxDone, status, machines) ==
    IF ctxDone \/ status = 0
    THEN [err |-> "executing request", targets |-> <<>>]
    ELSE IF status # StatusOK
    THEN [err |-> "unexpected status code", targets |-> <<>>]
    ELSE [err |-> "nil", targets |-> Eligible(machines, 1)]

ListTargets(ctxDone, status, machines) ==
    IF ctxDone \/ status = 0
    THEN [err |-> "executing request", targets |-> <<>>]
    ELSE IF status # StatusOK
    THEN [err |-> "unexpected status code", targets |-> <<>>]
    ELSE IF Len(Eligible(machines, 1)) = 0
    THEN [err |-> "no eligible targets found", targets |-> <<>>]
    ELSE [err |-> "nil", targets |-> Eligible(machines, 1)]

\* FlySaboteur.RestartMachine
RestartMachine(ctxDone, status) ==
    IF ctxDone \/ status = 0 THEN "executing request"
    ELSE IF status # StatusOK /\ status # StatusAccepted
    THEN "unexpected status code"
    ELSE "nil"

\* Mutant: the deadline context is not derived from the caller's context.
DurationCtxDetached(ctxCancelled, now, d) == now >= d

\* durationCtx, cancel := context.WithTimeout(ctx, scenario.Duration)
DurationCtxDone(ctxCancelled, now, d) == ctxCancelled \/ now >= d

durationCtxDone == DurationCtxDone(cancelled, elapsed, duration)

\* The context the running RunProbes call was given.
ProbeCtxDone == IF phase = "attack" THEN durationCtxDone ELSE cancelled

\* Mutant: the result of the pre-chaos validation is ignored.
PreValidationIgnored(err) == "continue"

\* RunExperiment: a failed pre-chaos validation returns the error.
PreValidationGate(err) == IF err THEN "return" ELSE "continue"

\* Mutant: the loop goes on after a failed validation.
AfterAttackIgnored(err) == "continue"

\* executeScenario: a failed validation after an attack returns the error.
AfterAttackGate(err) == IF err THEN "return" ELSE "continue"

\* Mutant: a failed attack ends the scenario.
OnAttackErrorReturn == "return"

\* executeScenario: a failed attack is logged and the loop continues.
OnAttackError == "continue"

\* Mutant: the result of the validation after chaos is ignored.
PostValidationIgnored(err) == "success"

\* RunExperiment: the validation after chaos decides the result.
PostValidationResult(err) ==
    IF err THEN "steady state validation failed after chaos" ELSE "success"

\* ------------------------------------------------------- domain.Validate

\* Mutant: the expected status is left as written.
ProbeValidateKeepsStatus(p) ==
    IF p.Name = "" THEN [err |-> "probe name is required", probe |-> p]
    ELSE IF p.Type # "http"
    THEN [err |-> "only 'http' probe type is supported", probe |-> p]
    ELSE IF ~p.HasHTTP
    THEN [err |-> "http configuration is required for http probes", probe |-> p]
    ELSE IF p.URL = "" THEN [err |-> "http url is required", probe |-> p]
    ELSE [err |-> "nil",
          probe |-> [p EXCEPT
              !.Method = IF @ = "" THEN "GET" ELSE @,
              !.Timeout = IF @ = 0 THEN DefaultTimeout ELSE @]]

\* Probe.Validate on the probe p points to: the error, and *p afterwards.
ProbeValidate(p) ==
    IF p.Name = "" THEN [err |-> "probe name is required", probe |-> p]
    ELSE IF p.Type # "http"
    THEN [err |-> "only 'http' probe type is supported", probe |-> p]
    ELSE IF ~p.HasHTTP
    THEN [err |-> "http configuration is required for http probes", probe |-> p]
    ELSE IF p.URL = "" THEN [err |-> "http url is required", probe |-> p]
    ELSE [err |-> "nil",
          probe |-> [p EXCEPT
              !.Method = IF @ = "" THEN "GET" ELSE @,
              !.ExpectedStatus = IF @ = 0 THEN DefaultExpectedStatus ELSE @,
              !.Timeout = IF @ = 0 THEN DefaultTimeout ELSE @]]

\* for i, probe := range e.SteadyState.Probes { probe.Validate() }: Validate
\* ran on the loop variable `probe`, a copy of the stored element.  The copy
\* shares the *HTTPProbe, so what was written through p.HTTP (Method,
\* ExpectedStatus) is seen in the stored probe; the fields of the copy itself
\* (Timeout) are not.
AfterRangeCopy(stored, copy) ==
    [stored EXCEPT !.Method = copy.Method,
                   !.ExpectedStatus = copy.ExpectedStatus]

\* Scenario.Validate
ScenarioValidate(sc) ==
    IF sc.Type # "restart_random"
    THEN "only 'restart_random' scenario type is supported"
    ELSE IF sc.App = "" THEN "app selector is required"
    ELSE IF sc.Duration <= 0 THEN "positive duration is required"
    ELSE IF sc.Interval <= 0 THEN "positive interval is required"
    ELSE IF sc.Interval > sc.Duration
    THEN "interval cannot be greater than duration"
    ELSE "nil"

\* The probe loop of Experiment.Validate from index k on: the first error
\* and the stored probes afterwards.
RECURSIVE ValidateProbes(_, _)
ValidateProbes(ps, k) ==
    IF k > Len(ps) THEN [err |-> "nil", probes |-> ps]
    ELSE LET r == ProbeValidate(ps[k]) IN
         IF r.err # "nil" THEN [err |-> r.err, probes |-> ps]
         ELSE ValidateProbes([ps EXCEPT ![k] = AfterRangeCopy(ps[k], r.probe)],
                             k + 1)

\* Experiment.Validate: the error and the experiment afterwards.
ExperimentValidate(e) ==
    IF e.Name = "" THEN [err |-> "experiment name is required", experiment |-> e]
    ELSE IF Len(e.Probes) = 0
    THEN [err |-> "at least one probe is required", experiment |-> e]
    ELSE LET r == ValidateProbes(e.Probes, 1)
             after == [e EXCEPT !.Probes = r.probes] IN
         IF r.err # "nil" THEN [err |-> r.err, experiment |-> after]
         ELSE IF ScenarioValidate(e.Scenario) # "nil"
         THEN [err |-> ScenarioValidate(e.Scenario), experiment |-> after]
         ELSE [err |-> "nil", experiment |-> after]

\* The probes a configuration file can hold: a complete probe, the probes
\* that leave out some of method, expected status and timeout, and the
\* probes Probe.Validate rejects.
WrittenProbes ==
    {[Name |-> "p", Type |-> "http", HasHTTP |-> TRUE, URL |-> "u",
      Method |-> m, ExpectedStatus |-> st, Timeout |-> t] :
        m \in {"", "POST"}, st \in {0, 204}, t \in {0, 10}}
    \cup
    {[Name |-> c[1], Type |-> c[2], HasHTTP |-> c[3], URL |-> c[4],
      Method |-> "", ExpectedStatus |-> 0, Timeout |-> 0] :
        c \in {<<"", "http", TRUE, "u">>, <<"p", "tcp", TRUE, "u">>,
                <<"p", "http", FALSE, "">>, <<"p", "http", TRUE, "">>}}

WrittenScenarios ==
    [Type : ScenarioTypes, App : {"", "app"},
     Interval : 0..MaxInterval, Duration : 0..MaxInterval]

WrittenExperiments ==
    [Name : {"", "exp"},
     Probes : UNION {[1..n -> WrittenProbes] : n \in 0..NumLoadedProbes},
     Scenario : WrittenScenarios]

\* An experiment built by the caller of RunExperiment, not read from a file.
NotLoaded ==
    [Name |-> "", Probes |-> <<>>,
     Scenario |-> [Type |-> "", App |-> "", Interval |-> 0, Duration |-> 0]]

NoOutcome == [probe |-> 0, status |-> 0, err |-> "none"]

\* ------------------------------------------------------------------ Init

InitWith(maxProbes) ==
    /\ pc = "start"
    /\ \E n \in 0..maxProbes : probes = [i \in 1..n |-> Probe(i)]
    /\ scenarioType \in ScenarioTypes
    /\ interval \in 1..MaxInterval
    /\ duration \in interval..MaxDuration
    /\ cancelled = FALSE
    /\ phase = "pre"
    /\ running = {}
    /\ errors = <<>>
    /\ probeErrors = <<>>
    /\ targets = <<>>
    /\ elapsed = 0
    /\ nextTick = 0
    /\ tickPending = FALSE
    /\ sleepUntil = 0
    /\ attackCount = 0
    /\ attackErr = "nil"
    /\ result = "running"
    /\ loopResult = "none"
    /\ failed = {}
    /\ executed = {}
    /\ valCount = [p \in Phases |-> 0]
    /\ valResult = [p \in Phases |-> "none"]
    /\ listCalls = 0
    /\ listOutcome = "none"
    /\ restartCalls = 0
    /\ restartFails = 0
    /\ attacked = {}
    /\ ticks = 0
    /\ envFail = FALSE
    /\ cancelledIdle = FALSE
    /\ cancelledAt = "never"
    /\ loaded = NotLoaded
    /\ validateErr = "nil"
    /\ probeOutcome = NoOutcome

Init == InitWith(NumRunProbes)

\* ---------------------------------------------------------------- RunProbes

\* RunProbes up to wg.Wait(): the channel is made and one goroutine per
\* probe is started.
BeginProbes(ph) ==
    /\ pc' = "probes"
    /\ phase' = ph
    /\ running' = 1..Len(probes)
    /\ errors' = <<>>
    /\ probeErrors' = <<>>
    /\ failed' = {}
    /\ executed' = {}
    /\ valCount' = [valCount EXCEPT ![ph] = @ + 1]
    /\ UNCHANGED valResult

\* RunExperiment up to the first RunProbes call.
StartExperiment ==
    /\ pc = "start"
    /\ BeginProbes("pre")
    /\ UNCHANGED <<experimentVars, cancelled, targets, timeVars, attackCount,
                   attackErr, result, loopResult, listCalls, listOutcome,
                   restartCalls, restartFails, attacked, ticks, envFail, cancelledIdle, cancelledAt>>

\* One probe goroutine: executeProbe, then the send on a failure.
ProbeWorker(i, status) ==
    /\ pc = "probes"
    /\ i \in running
    /\ LET err == executeProbe(probes[i], ProbeCtxDone, status) IN
         /\ IF err # "nil"
            THEN /\ Len(errors) < chanCap(probes)
                 /\ errors' = Append(errors, [probe |-> probes[i].Name, err |-> err])
                 /\ failed' = failed \cup {i}
            ELSE UNCHANGED <<errors, failed>>
         /\ envFail' = (envFail \/ (err # "nil" /\ ~ProbeCtxDone))
    /\ running' = running \ {i}
    /\ executed' = executed \cup {i}
    /\ UNCHANGED <<pc, experimentVars, cancelled, phase, probeErrors, targets,
                   timeVars, attackCount, attackErr, result, loopResult,
                   valCount, valResult, listCalls, listOutcome, restartCalls, restartFails,
                   attacked, ticks, cancelledIdle, cancelledAt>>

\* RunProbes from wg.Wait() to its return, and what its caller does with
\* the result.
ProbesReturn ==
    /\ pc = "probes"
    /\ running = {}
    /\ probeErrors' = CollectErrors(errors)
    /\ errors' = <<>>
    /\ LET err == RunProbesFails(probeErrors') IN
         /\ valResult' = [valResult EXCEPT ![phase] = IF err THEN "fail" ELSE "pass"]
         /\ CASE phase = "pre" ->
                   IF PreValidationGate(err) = "return"
                   THEN /\ pc' = "done"
                        /\ result' = "steady state validation failed"
                        /\ UNCHANGED loopResult
                   ELSE /\ pc' = "list"
                        /\ UNCHANGED <<result, loopResult>>
              [] phase = "attack" ->
                   IF AfterAttackGate(err) = "return"
                   THEN /\ pc' = "done"
                        /\ loopResult' = "aborted"
                        /\ result' = "scenario execution failed"
                   ELSE /\ pc' = "select"
                        /\ UNCHANGED <<result, loopResult>>
              [] phase = "post" ->
                   /\ pc' = "done"
                   /\ result' = PostValidationResult(err)
                   /\ UNCHANGED loopResult
    /\ UNCHANGED <<experimentVars, cancelled, phase, running, failed,
                   executed, valCount, targets, timeVars, attackCount,
                   attackErr, listCalls, listOutcome, restartCalls, restartFails, attacked,
                   ticks, envFail, cancelledIdle, cancelledAt>>

\* ----------------------------------------------------------- executeScenario

\* executeScenario up to the loop: ListTargets, the ticker, the deadline.
FetchTargets(status, machines) ==
    /\ pc = "list"
    /\ listCalls' = listCalls + 1
    /\ listOutcome' =
         IF cancelled \/ status # StatusOK THEN "error"
         ELSE IF \A k \in 1..Len(machines) : machines[k] = "stopped" THEN "empty"
         ELSE "ok"
    /\ envFail' = (envFail \/ (~cancelled /\ status # StatusOK))
    /\ LET r == ListTargets(cancelled, status, machines) IN
         IF r.err # "nil"
         THEN /\ pc' = "done"
              /\ loopResult' = "fetch_failed"
              /\ result' = "scenario execution failed"
              /\ UNCHANGED <<targets, timeVars>>
         ELSE /\ pc' = "select"
              /\ targets' = r.targets
              /\ elapsed' = 0
              /\ nextTick' = interval
              /\ tickPending' = FALSE
              /\ UNCHANGED <<sleepUntil, loopResult, result>>
    /\ UNCHANGED <<experimentVars, cancelled, probeVars, attackCount,
                   attackErr, restartCalls, restartFails, attacked, ticks, cancelledIdle, cancelledAt>>

\* case <-durationCtx.Done(): executeScenario returns nil and RunExperiment
\* starts the validation after chaos.
SelectDone ==
    /\ pc = "select"
    /\ durationCtxDone
    /\ loopResult' = "completed"
    /\ BeginProbes("post")
    /\ UNCHANGED <<experimentVars, cancelled, targets, timeVars, attackCount,
                   attackErr, result, listCalls, listOutcome, restartCalls, restartFails,
                   attacked, ticks, envFail, cancelledIdle, cancelledAt>>

\* Mutant: the machine is drawn from the provider's current listing.
TargetChoicesAnyMachine(ts) == 1..NumMachines

\* target := targets[rand.Intn(len(targets))]: the targets it can yield.
TargetChoices(ts) == {ts[k] : k \in 1..Len(ts)}

\* case <-ticker.C: executeAttack up to the call of RestartMachine.
SelectTick ==
    /\ pc = "select"
    /\ tickPending
    /\ tickPending' = FALSE
    /\ ticks' = ticks + 1
    /\ IF scenarioType # "restart_random" \/ Len(targets) = 0
       THEN /\ attackErr' = IF scenarioType # "restart_random"
                            THEN "unsupported scenario type"
                            ELSE "no targets available"
            /\ IF OnAttackError = "continue"
               THEN /\ pc' = "select"
                    /\ UNCHANGED <<loopResult, result>>
               ELSE /\ pc' = "done"
                    /\ loopResult' = "aborted"
                    /\ result' = "scenario execution failed"
            /\ UNCHANGED <<restartCalls, attacked>>
       ELSE /\ \E t \in TargetChoices(targets) : attacked' = attacked \cup {t}
            /\ restartCalls' = restartCalls + 1
            /\ pc' = "restarting"
            /\ attackErr' = "nil"
            /\ UNCHANGED <<loopResult, result>>
    /\ UNCHANGED <<experimentVars, cancelled, probeVars, targets, elapsed,
                   nextTick, sleepUntil, attackCount, listCalls, listOutcome,
                   restartFails, envFail, cancelledIdle, cancelledAt>>

\* RestartMachine returns; on success executeAttack starts its time.Sleep,
\* on an error executeScenario logs it and continues with the loop.
RestartReturn(status) ==
    /\ pc = "restarting"
    /\ LET err == RestartMachine(durationCtxDone, status) IN
         /\ envFail' = (envFail \/ (err # "nil" /\ ~durationCtxDone))
         /\ IF err # "nil"
            THEN /\ attackErr' = "restarting machine"
                 /\ restartFails' = restartFails + 1
                 /\ IF OnAttackError = "continue"
                    THEN /\ pc' = "select"
                         /\ UNCHANGED <<loopResult, result>>
                    ELSE /\ pc' = "done"
                         /\ loopResult' = "aborted"
                         /\ result' = "scenario execution failed"
                 /\ UNCHANGED sleepUntil
            ELSE /\ pc' = "sleep"
                 /\ sleepUntil' = elapsed + SettleDelay
                 /\ UNCHANGED <<attackErr, restartFails, loopResult, result>>
    /\ UNCHANGED <<experimentVars, cancelled, probeVars, targets, elapsed,
                   nextTick, tickPending, attackCount, listCalls, listOutcome,
                   restartCalls, attacked, ticks, cancelledIdle, cancelledAt>>

\* Mutant: the settle delay never returns.
SleepNeverOver(now, until) == FALSE

\* Mutant: the settle delay returns at once.
SleepOverEarly(now, until) == TRUE

\* time.Sleep(2 * time.Second) returns when its full duration has passed,
\* whatever happened to the context.
SleepOver(now, until) == now >= until

\* time.Sleep returns, executeAttack returns nil, attackCount++ and the
\* validation after the attack starts.
SleepReturn ==
    /\ pc = "sleep"
    /\ SleepOver(elapsed, sleepUntil)
    /\ attackErr' = "nil"
    /\ attackCount' = attackCount + 1
    /\ BeginProbes("attack")
    /\ UNCHANGED <<experimentVars, cancelled, targets, timeVars, result,
                   loopResult, listCalls, listOutcome, restartCalls, restartFails, attacked,
                   ticks, envFail, cancelledIdle, cancelledAt>>

\* ------------------------------------------------------------- environment

\* The runner is blocked and half a second passes; the ticker fires when
\* its period is up (a tick is dropped when ticker.C is full).
Blocked ==
    \/ pc = "select" /\ ~tickPending /\ ~durationCtxDone
    \/ pc = "restarting" /\ ~durationCtxDone
    \/ pc = "probes" /\ phase = "attack" /\ running # {} /\ ~durationCtxDone
    \/ pc = "sleep" /\ elapsed < sleepUntil

Advance ==
    /\ Blocked
    /\ elapsed' = elapsed + 1
    /\ IF elapsed' = nextTick
       THEN /\ tickPending' = TRUE
            /\ nextTick' = nextTick + interval
       ELSE UNCHANGED <<tickPending, nextTick>>
    /\ UNCHANGED <<pc, experimentVars, cancelled, probeVars, targets,
                   sleepUntil, attackCount, attackErr, result, loopResult,
                   listCalls, listOutcome, restartCalls, restartFails, attacked, ticks,
                   envFail, cancelledIdle, cancelledAt>>

\* Where RunExperiment is: in which RunProbes call, or at which other step.
RunPosition == IF pc = "probes" THEN phase ELSE pc

\* main: a shutdown signal arrives and cancel() is called.
Cancel ==
    /\ pc # "done"
    /\ ~cancelled
    /\ cancelled' = TRUE
    /\ cancelledIdle' = (pc = "select" /\ ~tickPending /\ ~durationCtxDone)
    /\ cancelledAt' = RunPosition
    /\ UNCHANGED <<pc, experimentVars, probeVars, targets, timeVars,
                   attackCount, attackErr, result, loopResult, listCalls,
                   listOutcome, restartCalls, restartFails, attacked, ticks, envFail>>

Next ==
    \/ StartExperiment
    \/ \E i \in 1..NumProbes, s \in HTTPStatuses : ProbeWorker(i, s)
    \/ ProbesReturn
    \/ \E s \in HTTPStatuses, m \in MachineLists : FetchTargets(s, m)
    \/ SelectDone
    \/ SelectTick
    \/ \E s \in HTTPStatuses : RestartReturn(s)
    \/ SleepReturn
    \/ Advance
    \/ Cancel

Spec == Init /\ [][Next]_vars

\* RunProbes on its own: the pre-chaos validation of an experiment with up
\* to NumProbes probes, under a context that is cancelled at any moment.
InitProbes == InitWith(NumProbes)

NextProbes ==
    \/ StartExperiment
    \/ \E i \in 1..NumProbes, s \in HTTPStatuses : ProbeWorker(i, s)
    \/ ProbesReturn
    \/ Cancel

SpecProbes == InitProbes /\ [][NextProbes]_vars

\* ------------------------------------------------------------ fair runs

InitLive == InitWith(NumLiveProbes)

\* The runs in which the program is not stopped from outside: a goroutine
\* that can take a step takes it, a probe request and a provider call that
\* are under way return, and time passes while the runner waits.
Fairness ==
    /\ WF_vars(StartExperiment)
    /\ WF_vars(\E i \in 1..NumProbes, s \in HTTPStatuses : ProbeWorker(i, s))
    /\ WF_vars(ProbesReturn)
    /\ WF_vars(\E s \in HTTPStatuses, m \in MachineLists : FetchTargets(s, m))
    /\ WF_vars(SelectDone \/ SelectTick)
    /\ WF_vars(\E s \in HTTPStatuses : RestartReturn(s))
    /\ WF_vars(SleepReturn)
    /\ WF_vars(Advance)

SpecLive == InitLive /\ [][Next]_vars /\ Fairness

\* ------------------------------------------------- any Saboteur provider

\* What ListTargets of an implementation of the Saboteur interface can
\* return: an error, or a list of machines that may be empty (the interface
\* does not promise a non-empty list; executeAttack checks for it).
SaboteurListings ==
    {[err |-> "listing targets", targets |-> <<>>]}
    \cup {[err |-> "nil", targets |-> Eligible(m, 1)] : m \in MachineLists}

\* executeScenario up to the loop, the Runner holding any Saboteur.
FetchSnapshot(r) ==
    /\ pc = "list"
    /\ listCalls' = listCalls + 1
    /\ listOutcome' = IF r.err # "nil" THEN "error"
                      ELSE IF Len(r.targets) = 0 THEN "empty"
                      ELSE "ok"
    /\ envFail' = (envFail \/ r.err # "nil")
    /\ IF r.err # "nil"
       THEN /\ pc' = "done"
            /\ loopResult' = "fetch_failed"
            /\ result' = "scenario execution failed"
            /\ UNCHANGED <<targets, timeVars>>
       ELSE /\ pc' = "select"
            /\ targets' = r.targets
            /\ elapsed' = 0
            /\ nextTick' = interval
            /\ tickPending' = FALSE
            /\ UNCHANGED <<sleepUntil, loopResult, result>>
    /\ UNCHANGED <<experimentVars, cancelled, probeVars, attackCount,
                   attackErr, restartCalls, restartFails, attacked, ticks,
                   cancelledIdle, cancelledAt>>

NextAnySaboteur ==
    \/ StartExperiment
    \/ \E i \in 1..NumProbes, s \in HTTPStatuses : ProbeWorker(i, s)
    \/ ProbesReturn
    \/ \E r \in SaboteurListings : FetchSnapshot(r)
    \/ SelectDone
    \/ SelectTick
    \/ \E s \in HTTPStatuses : RestartReturn(s)
    \/ SleepReturn
    \/ Advance
    \/ Cancel

SpecAnySaboteur == Init /\ [][NextAnySaboteur]_vars

\* ---------------------------------------------------------- loadExperiment

\* loadExperiment after yaml.Unmarshal: the experiment is what the file
\* holds, fields left out being zero.
InitValidate ==
    \E e \in WrittenExperiments :
        /\ pc = "load"
        /\ loaded = e
        /\ probes = e.Probes
        /\ scenarioType = e.Scenario.Type
        /\ interval = e.Scenario.Interval
        /\ duration = e.Scenario.Duration
        /\ validateErr = "none"
        /\ probeOutcome = NoOutcome
        /\ cancelled = FALSE
        /\ phase = "pre"
        /\ running = {}
        /\ errors = <<>>
        /\ probeErrors = <<>>
        /\ targets = <<>>
        /\ elapsed = 0
        /\ nextTick = 0
        /\ tickPending = FALSE
        /\ sleepUntil = 0
        /\ attackCount = 0
        /\ attackErr = "nil"
        /\ result = "running"
        /\ loopResult = "none"
        /\ failed = {}
        /\ executed = {}
        /\ valCount = [p \in Phases |-> 0]
        /\ valResult = [p \in Phases |-> "none"]
        /\ listCalls = 0
        /\ listOutcome = "none"
        /\ restartCalls = 0
        /\ restartFails = 0
        /\ attacked = {}
        /\ ticks = 0
        /\ envFail = FALSE
        /\ cancelledIdle = FALSE
        /\ cancelledAt = "never"

runVars == <<cancelled, phase, running, errors, probeErrors, targets,
             elapsed, nextTick, tickPending, sleepUntil, attackCount,
             attackErr, result, loopResult, failed, executed, valCount,
             valResult, listCalls, listOutcome, restartCalls, restartFails,
             attacked, ticks, envFail, cancelledIdle, cancelledAt>>

\* loadExperiment: experiment.Validate() and what main does with its error.
Validate ==
    /\ pc = "load"
    /\ LET r == ExperimentValidate(loaded) IN
         /\ validateErr' = r.err
         /\ probes' = r.experiment.Probes
         /\ pc' = IF r.err = "nil" THEN "validated" ELSE "rejected"
    /\ UNCHANGED <<scenarioType, interval, duration, loaded, probeOutcome,
                   runVars>>

\* executeProbe on probe i of the validated experiment, the endpoint
\* answering with `status`, under a live context.
ExecuteProbe(i, status) ==
    /\ pc = "validated"
    /\ i \in 1..Len(probes)
    /\ probeOutcome' = [probe |-> i, status |-> status,
                        err |-> executeProbe(probes[i], FALSE, status)]
    /\ pc' = "probed"
    /\ UNCHANGED <<probes, scenarioType, interval, duration, loaded,
                   validateErr, runVars>>

NextValidate ==
    \/ Validate
    \/ \E i \in 1..NumLoadedProbes, s \in HTTPStatuses : ExecuteProbe(i, s)

SpecValidate == InitValidate /\ [][NextValidate]_vars

\* ------------------------------------------------------------------ claims

\* The running or last RunProbes call has returned to its caller.
RunProbesReturned == pc # "probes" /\ valResult[phase] # "none"

\* The names of the probes whose executeProbe failed in this call.
FailedNames == {probes[i].Name : i \in failed}

\* C1: RunProbes returns success if and only if every probe of the set
\* succeeded, and when exactly one probe failed the composite error names
\* that probe and no other.
C1_ValidatorCorrect ==
    RunProbesReturned =>
        /\ (valResult[phase] = "pass") <=> (failed = {})
        /\ \A i \in 1..Len(probes) :
              failed = {i} => NamesIn(probeErrors) = {probes[i].Name}

\* One probe among three failed and the composite error names only it.
C1_Witness ==
    /\ RunProbesReturned
    /\ Len(probes) = 3
    /\ failed = {2}
    /\ valResult[phase] = "fail"
    /\ NamesIn(probeErrors) = {probes[2].Name}

\* C2: probes do not short-circuit each other: when RunProbes returns every
\* probe has been executed to completion, and the composite error carries
\* one entry for each probe that failed, all of them and no other.
C2_NoShortCircuit ==
    RunProbesReturned =>
        /\ executed = 1..Len(probes)
        /\ NamesIn(probeErrors) = FailedNames
        /\ Len(probeErrors) = Cardinality(failed)

\* Two probes failed, the first to fail being the last of the set, one
\* passed, and both failures are reported.
C2_Witness ==
    /\ RunProbesReturned
    /\ ~cancelled
    /\ Len(probes) = 3
    /\ failed = {1, 3}
    /\ Len(probeErrors) = 2
    /\ probeErrors[1].probe = probes[3].Name
    /\ executed = {1, 2, 3}

\* C3: when the pre-chaos validation fails RunExperiment returns that error
\* and the scenario never runs: no ListTargets call, no tick, no
\* RestartMachine call and no later validation.
C3_PreconditionGates ==
    valResult["pre"] = "fail" =>
        /\ pc = "done"
        /\ result = "steady state validation failed"
        /\ loopResult = "none"
        /\ listCalls = 0
        /\ ticks = 0
        /\ restartCalls = 0
        /\ valCount = [p \in Phases |-> IF p = "pre" THEN 1 ELSE 0]

\* The pre-chaos validation failed although nothing was cancelled.
C3_Witness ==
    /\ valResult["pre"] = "fail"
    /\ ~cancelled
    /\ pc = "done"

\* C4: when the validation that follows a successful injection fails, the
\* run ends at once with an error: no RestartMachine call and no validation
\* comes after it, and the validation after chaos is never run.
C4_AbortOnRegression ==
    /\ [](valResult["attack"] = "fail" =>
            /\ pc = "done"
            /\ loopResult = "aborted"
            /\ result = "scenario execution failed"
            /\ valCount["post"] = 0)
    /\ [][valResult["attack"] = "fail" =>
            /\ restartCalls' = restartCalls
            /\ valCount' = valCount
            /\ result' = result]_vars

\* A regression caused by the environment before the deadline, after an
\* earlier attack that went through.
C4_Witness ==
    /\ valResult["attack"] = "fail"
    /\ envFail
    /\ ~cancelled
    /\ elapsed < duration
    /\ attackCount = 1
    /\ ticks = 1

\* executeScenario has returned.
LoopEnded == loopResult \in {"completed", "aborted"}

\* C5: the deadline always wins: once the scenario's deadline has fired the
\* loop ends as completed whatever the tick in progress was doing, never as
\* aborted, and the loop completes only because its deadline context is
\* done.
C5_DeadlinePrecedence ==
    /\ (LoopEnded /\ elapsed >= duration) => loopResult = "completed"
    /\ loopResult = "completed" => durationCtxDone

\* C6: with interval = 1s and duration = 2.5s, targets present, every
\* RestartMachine call succeeding and every probed endpoint healthy, the loop
\* makes exactly two attacks and ends cleanly at 2.5s.
C6_TwoAttacksThenDeadline ==
    ( /\ interval = 2
      /\ duration = 5
      /\ scenarioType = "restart_random"
      /\ Len(probes) > 0
      /\ ~envFail
      /\ restartFails = 0
      /\ ~cancelled
      /\ LoopEnded )
    => /\ loopResult = "completed"
       /\ attackCount = 2
       /\ restartCalls = 2
       /\ elapsed = 5

\* C7: a failed RestartMachine call does not end the loop: on that tick
\* there is no settle delay, no validation and no second call, the loop is
\* back in its select, and when the loop then completes at its deadline the
\* validation after chaos runs once and decides the result.
C7_AttackFailureNonFatal ==
    /\ [][restartFails' > restartFails =>
            /\ pc' = "select"
            /\ loopResult' = "none"
            /\ result' = "running"
            /\ elapsed' = elapsed
            /\ sleepUntil' = sleepUntil
            /\ valCount' = valCount
            /\ restartCalls' = restartCalls
            /\ attackCount' = attackCount]_vars
    /\ []((restartFails > 0 /\ loopResult = "completed" /\ pc = "done") =>
            /\ valCount["post"] = 1
            /\ (result = "success") <=> (valResult["post"] = "pass"))

\* An injection failed while its context was live, the loop went on to the
\* deadline and the validation after chaos made the run a success.
C7_Witness ==
    /\ restartFails > 0
    /\ envFail
    /\ ~cancelled
    /\ loopResult = "completed"
    /\ elapsed >= duration
    /\ pc = "done"
    /\ result = "success"

\* C8: the validation after chaos is run exactly once, and only after the
\* loop has completed; RunExperiment returns success only if the pre-chaos
\* validation passed, the loop completed and the validation after chaos
\* passed, and a failing validation after chaos is returned as an error.
C8_PostValidationGates ==
    /\ valCount["post"] = (IF loopResult = "completed" THEN 1 ELSE 0)
    /\ result = "success" =>
          /\ valResult["pre"] = "pass"
          /\ loopResult = "completed"
          /\ valResult["post"] = "pass"
    /\ (pc = "done" /\ valResult["post"] = "fail") =>
          result = "steady state validation failed after chaos"

\* The scenario completed at its deadline after an attack, and the
\* validation after chaos failed.
C8_Witness ==
    /\ pc = "done"
    /\ ~cancelled
    /\ loopResult = "completed"
    /\ attackCount > 0
    /\ valResult["post"] = "fail"
    /\ result = "steady state validation failed after chaos"

\* C9: when listing the targets fails, or no listed machine is eligible,
\* the scenario never starts: no tick is processed, RestartMachine is never
\* called, the validation after chaos is not run and RunExperiment returns
\* an error.
C9_TargetFetchFatal ==
    listOutcome \in {"error", "empty"} =>
        /\ pc = "done"
        /\ loopResult = "fetch_failed"
        /\ result = "scenario execution failed"
        /\ ticks = 0
        /\ restartCalls = 0
        /\ attackCount = 0
        /\ valCount["attack"] = 0
        /\ valCount["post"] = 0

\* The provider answered, and none of its machines was eligible.
C9_Witness ==
    /\ listOutcome = "empty"
    /\ ~cancelled
    /\ pc = "done"

\* C10: a cancellation that arrives while the loop is blocked in its select
\* ends the wait at once: the done branch is the only one ready, no time
\* passes, no tick is taken and RestartMachine is not called again before
\* the run ends.
C10_CancelWhileWaiting ==
    /\ [](cancelledIdle =>
            /\ pc \in {"select", "probes", "done"}
            /\ pc = "select" => (durationCtxDone /\ ~tickPending /\ ~Blocked)
            /\ pc = "probes" => phase = "post"
            /\ pc # "select" => loopResult = "completed")
    /\ [][cancelledIdle =>
            /\ elapsed' = elapsed
            /\ ticks' = ticks
            /\ restartCalls' = restartCalls]_vars

\* The loop was cancelled in its select between two ticks, after a first
\* attack, before its deadline, and the run has ended.
C10_Witness ==
    /\ cancelledIdle
    /\ restartCalls = 1
    /\ elapsed < duration
    /\ elapsed < nextTick
    /\ pc = "done"

\* ------------------------------------------------------------- C11, C12

\* Probe i of the loaded experiment, as the configuration file wrote it.
Written(i) == loaded.Probes[i]

\* C11: after Experiment.Validate returns nil, every stored probe has all
\* defaults applied: method "GET", expected status 200 and timeout 30 s where
\* the file left them out (what the file gave is kept), and no stored probe
\* has a zero timeout.  The code does not keep this: the timeout default is
\* written to the loop's copy of the probe.
C11_DefaultsStored ==
    pc = "validated" =>
        \A i \in 1..Len(probes) :
            /\ probes[i].Method =
                   IF Written(i).Method = "" THEN "GET" ELSE Written(i).Method
            /\ probes[i].ExpectedStatus =
                   IF Written(i).ExpectedStatus = 0 THEN 200
                   ELSE Written(i).ExpectedStatus
            /\ probes[i].Timeout =
                   IF Written(i).Timeout = 0 THEN 60 ELSE Written(i).Timeout
            /\ probes[i].Timeout # 0

\* C12: for a probe of a validated experiment whose expected_status was left
\* out, executeProbe returns nil when the response status is 200 and an
\* unexpected-status error for every other response status.
C12_DefaultExpectedStatus ==
    (pc = "probed" /\ Written(probeOutcome.probe).ExpectedStatus = 0
                   /\ probeOutcome.status # 0) =>
        /\ probeOutcome.status = 200 => probeOutcome.err = "nil"
        /\ probeOutcome.status # 200 =>
               probeOutcome.err = "unexpected status code"

\* Both outcomes happen: a 200 accepted and another status refused.
C12_Witness ==
    /\ pc = "probed"
    /\ Written(probeOutcome.probe).ExpectedStatus = 0
    /\ probeOutcome.status = 500
    /\ probeOutcome.err = "unexpected status code"
    /\ Len(probes) = NumLoadedProbes
    /\ \E j \in 1..Len(probes) : Written(j).ExpectedStatus # 0

\* ------------------------------------------------------------------ C13

\* Injections whose RestartMachine call has been made and whose tick is not
\* finished: the call has not returned, or the settle delay is running.
AttacksInProgress == restartCalls - restartFails - attackCount

\* C13: the scenario loop is strictly sequential.  At most one attack is in
\* progress; while an injection call or its settle delay is in flight no
\* validation runs and every earlier validation has completed; a validation
\* after an attack runs only once the settle delay that followed the
\* injection's return has elapsed, and no injection is in flight during it;
\* a tick that fired meanwhile waits in the ticker's channel.
C13_StrictSequencing ==
    /\ AttacksInProgress \in {0, 1}
    /\ AttacksInProgress = 1 <=> pc \in {"restarting", "sleep"}
    /\ pc \in {"restarting", "sleep"} =>
           /\ running = {}
           /\ valCount["attack"] = attackCount
           /\ attackCount > 0 =>
                  (phase = "attack" /\ valResult["attack"] = "pass"
                       /\ executed = 1..Len(probes))
    /\ (pc = "probes" /\ phase = "attack") =>
           /\ elapsed >= sleepUntil
           /\ valCount["attack"] = attackCount
           /\ restartCalls = restartFails + attackCount
    /\ pc = "sleep" => sleepUntil <= elapsed + SettleDelay

\* A second injection is in flight after a first one was validated, and a
\* tick fired while the work of a tick was in flight.
C13_Witness ==
    /\ pc = "sleep"
    /\ attackCount = 1
    /\ restartCalls = 2
    /\ restartFails = 0
    /\ tickPending
    /\ Len(probes) > 0

\* ------------------------------------------------------------------ C14

\* C14: cancellation is observable during the settle delay: once the
\* context is done (cancel or deadline) while executeAttack is in its settle
\* delay, the loop leaves the delay without waiting any longer.  The code
\* does not keep this: time.Sleep does not look at the context, so time
\* goes on passing in the delay until the full SettleDelay is over.
C14_SettleDelayCancellable ==
    [][(pc = "sleep" /\ durationCtxDone) => elapsed' = elapsed]_vars

\* ------------------------------------------------------------------ C15

\* C15: within one scenario execution ListTargets is called exactly once,
\* before the first tick; the snapshot it returned is not modified or
\* fetched again afterwards, and every machine passed to RestartMachine is
\* a member of the snapshot.
C15_FixedSnapshot ==
    /\ [](/\ listCalls <= 1
          /\ (ticks > 0 \/ restartCalls > 0 \/ pc \in {"select", "restarting", "sleep"})
                 => listCalls = 1
          /\ attacked \subseteq {targets[k] : k \in 1..Len(targets)})
    /\ [][listCalls = 1 => (targets' = targets /\ listCalls' = listCalls)]_vars

\* Two ticks attacked the two machines of one snapshot.
C15_Witness ==
    /\ listCalls = 1
    /\ Len(targets) = NumMachines
    /\ attacked = 1..NumMachines
    /\ restartCalls >= 2
    /\ ticks >= 2

\* ------------------------------------------------------------------ C16

\* The scenario loop runs on an empty target snapshot.
EmptySnapshotHeld == listCalls = 1 /\ listOutcome = "empty"

\* C16: when the scenario loop holds an empty snapshot, each tick's attack
\* fails with "no targets available" without a call of RestartMachine, the
\* loop does not abort but goes back to waiting for the next tick, no
\* validation is run for the tick, and the loop ends only through the done
\* context, as completed.
C16_EmptySnapshotNonFatal ==
    EmptySnapshotHeld =>
        /\ restartCalls = 0
        /\ attackCount = 0
        /\ valCount["attack"] = 0
        /\ loopResult \in {"none", "completed"}
        /\ (ticks > 0 /\ scenarioType = "restart_random") =>
               attackErr = "no targets available"
        /\ \/ pc = "select" /\ loopResult = "none"
           \/ /\ pc \in {"probes", "done"}
              /\ phase = "post"
              /\ loopResult = "completed"
              /\ durationCtxDone

\* Two ticks failed on an empty snapshot and the run ended in success at
\* the deadline.
C16_Witness ==
    /\ EmptySnapshotHeld
    /\ scenarioType = "restart_random"
    /\ ticks >= 2
    /\ ~cancelled
    /\ pc = "done"
    /\ result = "success"
    /\ Len(probes) > 0

\* ------------------------------------------------------------------ C17

\* C17: a run of RunExperiment on an experiment whose scenario type is not
\* "restart_random" makes no injection and never ends in success.  The code
\* does not keep the second part: executeAttack's "unsupported scenario
\* type" error is logged by the loop like any attack failure, the loop ends
\* at the deadline and the run succeeds when the probes are healthy.
\* (Stated for the runs in which a tick met the unsupported type and no
\* shutdown signal arrived.)
C17_UnsupportedKindFatal ==
    (scenarioType # "restart_random" /\ ticks > 0 /\ ~cancelled) =>
        /\ restartCalls = 0
        /\ attackErr = "unsupported scenario type"
        /\ pc = "done" => result # "success"

\* ------------------------------------------------------------------ C18

\* C18: the fan-in of RunProbes never blocks.  Each worker sends at most
\* one error; the channel has room for an error of every worker still
\* running, so the send of a worker is never blocked, whatever its probe's
\* outcome; the channel is closed and read only after every worker has
\* finished, and nothing is sent afterwards; and once all workers have
\* finished, RunProbes can return.
C18_FanInNeverBlocks ==
    /\ Len(errors) = Cardinality(NamesIn(errors))
    /\ pc = "probes" =>
           /\ NamesIn(errors) = {probes[i].Name : i \in failed}
           /\ failed \subseteq executed
           /\ executed = (1..Len(probes)) \ running
           /\ Len(errors) + Cardinality(running) <= chanCap(probes)
           /\ \A i \in running, s \in HTTPStatuses : ENABLED ProbeWorker(i, s)
           /\ running = {} => ENABLED ProbesReturn
    /\ RunProbesReturned =>
           /\ running = {}
           /\ executed = 1..Len(probes)
           /\ errors = <<>>
           /\ Len(probeErrors) = Cardinality(failed)

\* Every worker of a three-probe validation has failed and sent: the
\* channel is full.
C18_Witness ==
    /\ pc = "probes"
    /\ Len(probes) = NumProbes
    /\ running = {}
    /\ Len(errors) = chanCap(probes)
    /\ Len(errors) = NumProbes

\* ------------------------------------------------------------------ C19

\* C19: once the scenario's context is done (deadline or cancel) the loop
\* starts no attack: RestartMachine is not called afterwards, also when a
\* tick is pending at that moment.  The code does not keep this: with both
\* ticker.C and durationCtx.Done() ready, select takes either case.
C19_NoInjectionAfterDeadline ==
    [][durationCtxDone => restartCalls' = restartCalls]_vars

\* ------------------------------------------------------------------ C20

\* C20: when every probe execution and every provider call returns and
\* time passes, every run of RunExperiment returns, with success or with
\* an error, for every Interval and Duration with 0 < Interval <= Duration.
C20_Termination == <>(pc = "done" /\ result # "running")

\* A run with 0 < Interval <= Duration ticked twice, was not cancelled and
\* returned after the deadline branch was taken.
C20_Witness ==
    /\ pc = "done"
    /\ result # "running"
    /\ loopResult = "completed"
    /\ ticks >= 2
    /\ ~cancelled
    /\ 0 < interval
    /\ interval <= duration

\* ------------------------------------------------------------------ C21

\* cancel() was called while executeScenario was in its loop.
CancelledInLoop == cancelledAt \in {"select", "restarting", "sleep", "attack"}

\* C21: a run cancelled before the scenario loop has ended, of an
\* experiment with at least one probe, returns an error; the loop itself
\* reports the cancellation as a clean completion and the error is the one
\* of the validation after chaos, all of whose probes fail under the
\* cancelled context.  The code keeps the first part only: a cancel during
\* the settle delay or the validation after an attack makes that
\* validation fail, and the loop reports an abort.
\* (Stated for the cancels that arrive while the loop is running, in runs
\* whose deadline has not passed and in which no call failed for a reason
\* other than the cancelled context.)
C21_CancelledRunFailsInPostValidation ==
    (pc = "done" /\ CancelledInLoop /\ elapsed < duration /\ ~envFail
                 /\ Len(probes) >= 1) =>
        /\ result # "success"
        /\ loopResult = "completed"
        /\ result = "steady state validation failed after chaos"
        /\ failed = 1..Len(probes)

====
